---- MODULE Spec2Model ----
(***************************************************************************)
(* Model of file_integrity.py: the baseline / verify engine of the file    *)
(* integrity checker.  Strings are TLA+ strings, file contents are tuples  *)
(* of bytes (0..255), 32-bit words are pairs of 16-bit halves.              *)
(***************************************************************************)
EXTENDS Integers, Sequences, FiniteSets, TLC

(***************************************************************************)
(* Bounds of the model.                                                    *)
(***************************************************************************)
MaxThreads == 2
MaxEdits == 1
MaxBaselines == 1

(***************************************************************************)
(* Program constants.                                                      *)
(***************************************************************************)
HASH_LOG_NAME == ".integrity_hash.log"
buf_size == 1048576
NOBODY_ID == 65534
ROOT_ID == 0

None == "None"

(***************************************************************************)
(* Python string primitives.                                               *)
(***************************************************************************)
CharAt(s, i) == SubSeq(s, i, i)

startswith(s, p) == Len(s) >= Len(p) /\ SubSeq(s, 1, Len(p)) = p

\* Index of the first occurrence of sep in s at or after position i, 0 if none.
RECURSIVE find(_, _, _)
find(s, sep, i) ==
    IF i + Len(sep) - 1 > Len(s) THEN 0
    ELSE IF SubSeq(s, i, i + Len(sep) - 1) = sep THEN i
    ELSE find(s, sep, i + 1)

\* str.split(sep): left-to-right, non-overlapping, empty fields kept.
RECURSIVE split(_, _)
split(s, sep) ==
    LET k == find(s, sep, 1) IN
    IF k = 0 THEN <<s>>
    ELSE <<SubSeq(s, 1, k - 1)>> \o split(SubSeq(s, k + Len(sep), Len(s)), sep)

\* str.rstrip("\n")
RECURSIVE rstrip_nl(_)
rstrip_nl(s) ==
    IF Len(s) > 0 /\ CharAt(s, Len(s)) = "\n" THEN rstrip_nl(SubSeq(s, 1, Len(s) - 1))
    ELSE s

\* Iteration over a text file: lines, each keeping its terminating "\n".
RECURSIVE readlines(_)
readlines(text) ==
    IF Len(text) = 0 THEN <<>>
    ELSE LET k == find(text, "\n", 1) IN
         IF k = 0 THEN <<text>>
         ELSE <<SubSeq(text, 1, k)>> \o readlines(SubSeq(text, k + 1, Len(text)))

Digits == "0123456789"

\* f"{n}" for a non-negative integer.
RECURSIVE str_int(_)
str_int(n) ==
    IF n < 10 THEN CharAt(Digits, n + 1)
    ELSE str_int(n \div 10) \o CharAt(Digits, (n % 10) + 1)

IsDigit(c) == find(Digits, c, 1) # 0
IsSpace(c) == c \in {" ", "\t", "\n", "\r"}

RECURSIVE strip_left(_)
strip_left(s) ==
    IF Len(s) > 0 /\ IsSpace(CharAt(s, 1)) THEN strip_left(Tail(s)) ELSE s

RECURSIVE strip_right(_)
strip_right(s) ==
    IF Len(s) > 0 /\ IsSpace(CharAt(s, Len(s))) THEN strip_right(SubSeq(s, 1, Len(s) - 1))
    ELSE s

\* Value of a string of decimal digits with single underscores between digits;
\* -1 when the string is not of that form.
RECURSIVE digits_value(_, _, _)
digits_value(s, acc, prev_digit) ==
    IF Len(s) = 0 THEN (IF prev_digit THEN acc ELSE -1)
    ELSE LET c == CharAt(s, 1) IN
         IF IsDigit(c) THEN digits_value(Tail(s), acc * 10 + (find(Digits, c, 1) - 1), TRUE)
         ELSE IF c = "_" /\ prev_digit /\ Len(s) > 1 /\ IsDigit(CharAt(s, 2))
              THEN digits_value(Tail(s), acc, FALSE)
         ELSE -1

\* int(s): surrounding whitespace stripped, optional sign, decimal digits.
\* The result is [ok |-> TRUE, value |-> n] or [ok |-> FALSE] (ValueError).
int(s) ==
    LET t == strip_right(strip_left(s))
        neg == Len(t) > 0 /\ CharAt(t, 1) = "-"
        signed == Len(t) > 0 /\ CharAt(t, 1) \in {"-", "+"}
        body == IF signed THEN Tail(t) ELSE t
        v == digits_value(body, 0, FALSE)
    IN IF v < 0 THEN [ok |-> FALSE, value |-> 0]
       ELSE [ok |-> TRUE, value |-> IF neg THEN 0 - v ELSE v]

(***************************************************************************)
(* zlib.crc32 and crc32_of_file.                                           *)
(***************************************************************************)
\* A 32-bit word is the pair <<hi, lo>> of its two 16-bit halves.
\* Bit k (a power of two) of the exclusive or, and of the conjunction, of two
\* numbers.
xor_bit(a, b, k) == (((a \div k) + (b \div k)) % 2) * k
and_bit(a, b, k) == (((a \div k) % 2) * ((b \div k) % 2)) * k

\* The two operations on 4-bit numbers, tabulated: entry [a + 1][b + 1].
\* The tables are built by halves.
nibble_op(op, a, b) ==
    IF op = "xor"
    THEN xor_bit(a, b, 1) + xor_bit(a, b, 2) + xor_bit(a, b, 4) + xor_bit(a, b, 8)
    ELSE and_bit(a, b, 1) + and_bit(a, b, 2) + and_bit(a, b, 4) + and_bit(a, b, 8)

RECURSIVE nibble_row(_, _, _, _)
nibble_row(op, a, lo, hi) ==
    IF lo = hi THEN <<nibble_op(op, a, lo)>>
    ELSE nibble_row(op, a, lo, (lo + hi) \div 2) \o nibble_row(op, a, ((lo + hi) \div 2) + 1, hi)

RECURSIVE nibble_rows(_, _, _)
nibble_rows(op, lo, hi) ==
    IF lo = hi THEN <<nibble_row(op, lo, 0, 15)>>
    ELSE nibble_rows(op, lo, (lo + hi) \div 2) \o nibble_rows(op, ((lo + hi) \div 2) + 1, hi)

xor_nibble == nibble_rows("xor", 0, 15)
and_nibble == nibble_rows("and", 0, 15)

\* The two operations on 16-bit numbers, nibble by nibble.
xor_bits(a, b) ==
    xor_nibble[(a % 16) + 1][(b % 16) + 1]
    + 16 * xor_nibble[((a \div 16) % 16) + 1][((b \div 16) % 16) + 1]
    + 256 * xor_nibble[((a \div 256) % 16) + 1][((b \div 256) % 16) + 1]
    + 4096 * xor_nibble[(a \div 4096) + 1][(b \div 4096) + 1]

and_bits(a, b) ==
    and_nibble[(a % 16) + 1][(b % 16) + 1]
    + 16 * and_nibble[((a \div 16) % 16) + 1][((b \div 16) % 16) + 1]
    + 256 * and_nibble[((a \div 256) % 16) + 1][((b \div 256) % 16) + 1]
    + 4096 * and_nibble[(a \div 4096) + 1][(b \div 4096) + 1]

Xor32(a, b) == <<xor_bits(a[1], b[1]), xor_bits(a[2], b[2])>>
And32(a, b) == <<and_bits(a[1], b[1]), and_bits(a[2], b[2])>>
Shr1(a) == <<a[1] \div 2, (a[2] \div 2) + 32768 * (a[1] % 2)>>

CrcPoly == <<60856, 33568>>      \* 0xEDB88320
AllOnes == <<65535, 65535>>      \* 0xFFFFFFFF
Zero32 == <<0, 0>>

RECURSIVE crc_shift(_, _)
crc_shift(c, n) ==
    IF n = 0 THEN c
    ELSE IF c[2] % 2 = 1 THEN crc_shift(Xor32(Shr1(c), CrcPoly), n - 1)
    ELSE crc_shift(Shr1(c), n - 1)

\* zlib's table: entry n is the register after the eight shifts of byte n.
RECURSIVE crc_entries(_, _)
crc_entries(lo, hi) ==
    IF lo = hi THEN <<crc_shift(<<0, lo>>, 8)>>
    ELSE crc_entries(lo, (lo + hi) \div 2) \o crc_entries(((lo + hi) \div 2) + 1, hi)

crc_table == crc_entries(0, 255)

\* One byte folded into the register: table[(c ^ byte) & 0xff] ^ (c >> 8).
\* (CHOOSE over {e : v \in {c}} computes c once and names its value v.)
crc_byte(c, byte) ==
    CHOOSE r \in {Xor32(crc_table[xor_bits(v[2] % 256, byte) + 1],
                        <<v[1] \div 256, (v[2] \div 256) + 256 * (v[1] % 256)>>) : v \in {c}} : TRUE

\* The bytes data[lo..hi] folded into c, one after the other.  The range is
\* halved to keep the evaluation shallow; the first half is computed before
\* the second is entered.
RECURSIVE crc_update(_, _, _, _)
crc_update(c, data, lo, hi) ==
    IF lo > hi THEN c
    ELSE IF lo = hi THEN crc_byte(c, data[lo])
    ELSE CHOOSE r \in {crc_update(left, data, ((lo + hi) \div 2) + 1, hi) :
                          left \in {crc_update(c, data, lo, (lo + hi) \div 2)}} : TRUE

zlib_crc32(data, crc) == Xor32(crc_update(Xor32(crc, AllOnes), data, 1, Len(data)), AllOnes)

HexDigits == "0123456789abcdef"

\* f"{crc:08x}"
hex08(c) ==
    LET h(v, k) == CharAt(HexDigits, ((v \div (16 ^ k)) % 16) + 1)
    IN CHOOSE r \in {h(w[1], 3) \o h(w[1], 2) \o h(w[1], 1) \o h(w[1], 0)
                        \o h(w[2], 3) \o h(w[2], 2) \o h(w[2], 1) \o h(w[2], 0) : w \in {c}} : TRUE

\* The read loop: chunks of buf_size bytes folded into the running crc.
RECURSIVE crc_chunks(_, _)
crc_chunks(data, crc) ==
    IF Len(data) = 0 THEN crc
    ELSE LET n == IF Len(data) < buf_size THEN Len(data) ELSE buf_size IN
         crc_chunks(SubSeq(data, n + 1, Len(data)), zlib_crc32(SubSeq(data, 1, n), crc))

crc32_of_file(data) ==
    CHOOSE r \in {hex08(And32(crc_chunks(d, Zero32), AllOnes)) : d \in {data}} : TRUE

(***************************************************************************)
(* The file system.  fs maps every path of the model to its entry; an      *)
(* entry holds what stat() and open() return for it.  The baseline file    *)
(* (variable log) lives at hash_log_path and holds text.                   *)
(***************************************************************************)
S_IFREG == 32768
S_IFDIR == 16384

Absent == [st_mode |-> 0, st_uid |-> 0, st_gid |-> 0, data |-> <<>>]
NoFile == [exists |-> FALSE, text |-> ""]

RegFile(bytes, uid, gid, perm) ==
    [st_mode |-> S_IFREG + perm, st_uid |-> uid, st_gid |-> gid, data |-> bytes]
Directory(uid, gid, perm) ==
    [st_mode |-> S_IFDIR + perm, st_uid |-> uid, st_gid |-> gid, data |-> <<>>]

S_IFMT(mode) == mode - (mode % 4096)
HasBit(mode, b) == (mode \div b) % 2 = 1

\* stat.filemode(st_mode)
filemode(mode) ==
    LET t == IF S_IFMT(mode) = S_IFREG THEN "-"
             ELSE IF S_IFMT(mode) = S_IFDIR THEN "d" ELSE "?"
        r(b) == IF HasBit(mode, b) THEN "r" ELSE "-"
        w(b) == IF HasBit(mode, b) THEN "w" ELSE "-"
        x(b, special, lo, up) ==
            IF HasBit(mode, special) THEN (IF HasBit(mode, b) THEN lo ELSE up)
            ELSE (IF HasBit(mode, b) THEN "x" ELSE "-")
    IN t \o r(256) \o w(128) \o x(64, 2048, "s", "S")
         \o r(32) \o w(16) \o x(8, 1024, "s", "S")
         \o r(4) \o w(2) \o x(1, 512, "t", "T")

\* The root of the scanned tree (args.path) and the two places of the
\* baseline file: the default one inside the root, an explicit one outside.
base_path == "/srv"
DefaultLog == base_path \o "/" \o HASH_LOG_NAME
ExplicitLog == "/var/baseline.log"

\* Owner and permissions of a file the process creates.
ProcUid == 1000
ProcGid == 1000
ProcUmaskMode == 420        \* 0o644

\* base_path / Path(rel): an absolute right operand replaces the left one.
path_join(base, rel) ==
    IF startswith(rel, "/") THEN rel
    ELSE IF rel = "" \/ rel = "." THEN base
    ELSE base \o "/" \o rel

\* p.relative_to(base).as_posix(): [ok, value]; ok = FALSE is ValueError.
relative_to(p, base) ==
    IF p = base THEN [ok |-> TRUE, value |-> "."]
    ELSE IF startswith(p, base \o "/")
         THEN [ok |-> TRUE, value |-> SubSeq(p, Len(base) + 2, Len(p))]
    ELSE [ok |-> FALSE, value |-> ""]

\* ord(c) for the characters a baseline file of the model holds (ASCII, so
\* the UTF-8 encoding of the text is one byte per character).
AsciiFrom45 == "-./0123456789"
AsciiFrom65 == "ABCDEFGHIJKLMNOPQRSTUVWXYZ"
AsciiFrom97 == "abcdefghijklmnopqrstuvwxyz"

\* The code points of the characters of s, which are consecutive from first.
RECURSIVE code_points(_, _, _)
code_points(s, i, first) ==
    IF i = Len(s) THEN CharAt(s, i) :> (first + i - 1)
    ELSE (CharAt(s, i) :> (first + i - 1)) @@ code_points(s, i + 1, first)

ord_table ==
    ("\n" :> 10) @@ (" " :> 32) @@ ("#" :> 35) @@ ("_" :> 95)
    @@ code_points(AsciiFrom45, 1, 45) @@ code_points(AsciiFrom65, 1, 65)
    @@ code_points(AsciiFrom97, 1, 97)

ord(c) == ord_table[c]

\* text.encode("utf-8"), by halves.
RECURSIVE encode_range(_, _, _)
encode_range(text, lo, hi) ==
    IF lo > hi THEN <<>>
    ELSE IF lo = hi THEN <<ord(CharAt(text, lo))>>
    ELSE encode_range(text, lo, (lo + hi) \div 2) \o encode_range(text, ((lo + hi) \div 2) + 1, hi)
encode(text) == encode_range(text, 1, Len(text))

(***************************************************************************)
(* State.                                                                  *)
(***************************************************************************)
VARIABLES
    fs,              \* the tree under base_path: path -> entry
    hash_log_path,   \* where the baseline file is (args.log or the default)
    log,             \* the baseline file on disk: NoFile or [exists, text]
    log_pending,     \* text written to the open output file and not yet on disk
    edits,           \* number of changes made to the tree so far
    baselines,       \* number of baseline runs started so far
    taken,           \* the last baseline run: its profile and the tree it saw
    pc,              \* position of the process: idle, baseline, verify, ...
    args,            \* threads, is_windows, check_idmap, check_root of the run
    futures,         \* the tasks submitted to the executor, in submission order
    error_count,     \* generate_baseline: error_count
    parsed,          \* verify_integrity: what the baseline file parsed to
    current,         \* verify_integrity: current_dirs, current_files
    report           \* verify_integrity: the category lists

vars == <<fs, hash_log_path, log, log_pending, edits, baselines, taken, pc, args, futures,
          error_count, parsed, current, report>>

Range(seq) == {seq[i] : i \in 1..Len(seq)}

\* The orders in which a Python set can be iterated.
Orders(S) ==
    {o \in [1..Cardinality(S) -> S] : \A i, j \in 1..Cardinality(S) : i # j => o[i] # o[j]}

(***************************************************************************)
(* stat() and open() of a path.                                            *)
(***************************************************************************)
LogEntry ==
    [st_mode |-> S_IFREG + ProcUmaskMode, st_uid |-> ProcUid, st_gid |-> ProcGid,
     data |-> log.text]

Lookup(p) ==
    IF p \in DOMAIN fs THEN fs[p]
    ELSE IF p = hash_log_path /\ log.exists THEN LogEntry
    ELSE Absent

stat(p) ==
    LET e == Lookup(p) IN
    IF e.st_mode = 0
    THEN [ok |-> FALSE, error |-> "[Errno 2] No such file or directory",
          st_size |-> 0, st_uid |-> 0, st_gid |-> 0, st_mode |-> 0]
    ELSE [ok |-> TRUE, error |-> None, st_size |-> Len(e.data),
          st_uid |-> e.st_uid, st_gid |-> e.st_gid, st_mode |-> e.st_mode]

\* Whether the permission bits let the process open the entry for reading.
may_read(e) ==
    IF ProcUid = ROOT_ID THEN TRUE
    ELSE IF e.st_uid = ProcUid THEN HasBit(e.st_mode, 256)
    ELSE IF e.st_gid = ProcGid THEN HasBit(e.st_mode, 32)
    ELSE HasBit(e.st_mode, 4)

open_rb(p) ==
    LET e == Lookup(p) IN
    IF e.st_mode = 0 THEN [ok |-> FALSE, error |-> "[Errno 2] No such file or directory", data |-> <<>>]
    ELSE IF S_IFMT(e.st_mode) = S_IFDIR THEN [ok |-> FALSE, error |-> "[Errno 21] Is a directory", data |-> <<>>]
    ELSE IF ~may_read(e) THEN [ok |-> FALSE, error |-> "[Errno 13] Permission denied", data |-> <<>>]
    ELSE [ok |-> TRUE, error |-> None,
          data |-> IF p \in DOMAIN fs THEN e.data ELSE encode(e.data)]

is_file(p) == S_IFMT(Lookup(p).st_mode) = S_IFREG
is_dir(p) == S_IFMT(Lookup(p).st_mode) = S_IFDIR

\* The last component of a path.
RECURSIVE name(_)
name(p) ==
    LET k == find(p, "/", 1) IN
    IF k = 0 THEN p ELSE name(SubSeq(p, k + 1, Len(p)))

\* base.rglob(pattern) for the two patterns used: every entry below base, and
\* every entry below base whose name begins with a dot.
rglob(base, pattern) ==
    LET below == {p \in DOMAIN fs \cup {hash_log_path} :
                     startswith(p, base \o "/") /\ Lookup(p).st_mode # 0}
    IN IF pattern = "*" THEN below
       ELSE {p \in below : startswith(name(p), ".")}

get_all_files(base) ==
    {p \in rglob(base, "*") : is_file(p)} \cup {p \in rglob(base, ".*") : is_file(p)}

get_all_dirs(base) ==
    {p \in rglob(base, "*") : is_dir(p)} \cup {p \in rglob(base, ".*") : is_dir(p)}

(***************************************************************************)
(* The per-file tasks.  A task stats the file when a worker picks it up    *)
(* (st) and reads it afterwards (rd); the result is built from both.       *)
(***************************************************************************)
Raised == [raised |-> TRUE, error |-> "ValueError"]

process_file_linux(file_path, st, rd) ==
    IF st.ok /\ rd.ok
    THEN [raised |-> FALSE, path |-> file_path, hash |-> crc32_of_file(rd.data),
          size |-> st.st_size, uid |-> st.st_uid, gid |-> st.st_gid,
          mode |-> filemode(st.st_mode), error |-> None]
    ELSE [raised |-> FALSE, path |-> file_path, hash |-> None, size |-> None,
          uid |-> None, gid |-> None, mode |-> None,
          error |-> IF st.ok THEN rd.error ELSE st.error]

process_file_windows(file_path, base, st, rd) ==
    LET rel == relative_to(file_path, base) IN
    IF ~rel.ok THEN Raised      \* relative_to raises again inside the handler
    ELSE IF st.ok /\ rd.ok
    THEN [raised |-> FALSE, path |-> file_path, rel_path |-> rel.value,
          hash |-> crc32_of_file(rd.data), size |-> st.st_size, error |-> None]
    ELSE [raised |-> FALSE, path |-> file_path, rel_path |-> rel.value,
          hash |-> None, size |-> None,
          error |-> IF st.ok THEN rd.error ELSE st.error]

NoEntry == [rel_path |-> None]

\* What a future holds for the stat and the result of a task that has not
\* got that far.
NotYet == [pending |-> TRUE]

submit(file_path, entry) ==
    [file_path |-> file_path, entry |-> entry, state |-> "queued", st |-> NotYet, result |-> NotYet]

\* The task submitted for file_path, from its stat on: the file is read
\* unless stat failed, and the result is built.
run_task(file_path, st, is_windows) ==
    LET rd == IF st.ok THEN open_rb(file_path) ELSE [ok |-> FALSE, error |-> None, data |-> <<>>]
    IN IF is_windows THEN process_file_windows(file_path, base_path, st, rd)
       ELSE process_file_linux(file_path, st, rd)

Running == {i \in 1..Len(futures) : futures[i].state = "running"}

\* A worker thread takes the oldest queued task and begins it (stat).
worker_start(i) ==
    /\ pc \in {"baseline", "verify", "baseline_failed", "verify_failed"}
    /\ i \in 1..Len(futures)
    /\ futures[i].state = "queued"
    /\ \A j \in 1..(i - 1) : futures[j].state # "queued"
    /\ Cardinality(Running) < args.threads
    /\ futures' = [futures EXCEPT ![i].state = "running", ![i].st = stat(futures[i].file_path)]
    /\ UNCHANGED <<fs, hash_log_path, log, log_pending, edits, baselines, taken, pc, args, error_count, parsed, current, report>>

\* The worker reads the file and the task returns its result.
worker_finish(i) ==
    /\ pc \in {"baseline", "verify", "baseline_failed", "verify_failed"}
    /\ i \in 1..Len(futures)
    /\ futures[i].state = "running"
    /\ futures' = [futures EXCEPT ![i].state = "done",
                                  ![i].result = run_task(futures[i].file_path, futures[i].st, args.is_windows)]
    /\ UNCHANGED <<fs, hash_log_path, log, log_pending, edits, baselines, taken, pc, args, error_count, parsed, current, report>>

(***************************************************************************)
(* generate_baseline.                                                      *)
(***************************************************************************)
NoBaseline == [done |-> FALSE]
NoArgs == [threads |-> 1, is_windows |-> FALSE, check_idmap |-> FALSE, check_root |-> FALSE]
NoParsed ==
    [baseline_dirs |-> {}, baseline_files |-> [keys |-> <<>>, val |-> <<>>],
     to_check_files |-> <<>>, skipped |-> <<>>, read |-> 0, error |-> FALSE]
NoCurrent == [current_dirs |-> {}, current_files |-> {}]
NoReport ==
    [dir_missing |-> <<>>, dir_extra |-> <<>>, dir_meta_mismatch |-> <<>>,
     file_missing |-> <<>>, file_extra |-> <<>>, file_error |-> <<>>,
     file_hash_mismatch |-> <<>>, file_size_mismatch |-> <<>>,
     file_uid_mismatch |-> <<>>, file_gid_mismatch |-> <<>>,
     file_mode_mismatch |-> <<>>, file_idmap_issues |-> <<>>,
     file_root_issues |-> <<>>]

\* No process is running: a run can be started, the tree can be changed.
AtRest == pc = "idle"

dir_line(rel, st) ==
    "DIR  " \o rel \o "  " \o str_int(st.st_uid) \o "  " \o str_int(st.st_gid)
            \o "  " \o filemode(st.st_mode) \o "\n"

file_line_windows(result, rel) ==
    "FILE  " \o result.hash \o "  " \o rel \o "  " \o str_int(result.size) \o "\n"

file_line_linux(result, rel) ==
    "FILE  " \o result.hash \o "  " \o rel \o "  " \o str_int(result.size) \o "  "
             \o str_int(result.uid) \o "  " \o str_int(result.gid) \o "  " \o result.mode \o "\n"

\* log.write(s) on the text file opened with the default buffering: the text
\* stays in the buffer of the file object until the buffer is full or the
\* file is closed.
DEFAULT_BUFFER_SIZE == 8192

\* write putting the text in front of what the buffer holds.
write_in_front(disk, pending, s) ==
    IF Len(pending) + Len(s) > DEFAULT_BUFFER_SIZE
    THEN [disk |-> disk \o s \o pending, pending |-> ""]
    ELSE [disk |-> disk, pending |-> s \o pending]

write(disk, pending, s) ==
    IF Len(pending) + Len(s) > DEFAULT_BUFFER_SIZE
    THEN [disk |-> disk \o pending \o s, pending |-> ""]
    ELSE [disk |-> disk, pending |-> pending \o s]

\* The loop over dirs: the text written and the number of errors counted.
RECURSIVE write_dirs(_, _, _)
write_dirs(dirs, n, acc) ==
    IF n > Len(dirs) THEN acc
    ELSE LET st == stat(dirs[n])
             rel == relative_to(dirs[n], base_path).value
         IN IF st.ok
            THEN write_dirs(dirs, n + 1, [acc EXCEPT !.text = @ \o dir_line(rel, st)])
            ELSE write_dirs(dirs, n + 1, [acc EXCEPT !.errors = @ + 1])

\* generate_baseline up to the loop over the results: the tree is enumerated,
\* the output file is opened for writing (truncated), the DIR lines are
\* written and one task per file is submitted.
generate_baseline(threads, is_windows) ==
    /\ AtRest
    /\ baselines < MaxBaselines
    /\ \E dirs \in Orders(get_all_dirs(base_path)), files \in Orders(get_all_files(base_path)) :
          LET written == write_dirs(dirs, 1, [text |-> "", errors |-> 0])
              out == write("", "", written.text)
          IN
          /\ log' = [exists |-> TRUE, text |-> out.disk]
          /\ log_pending' = out.pending
          /\ error_count' = written.errors
          /\ futures' = [i \in 1..Len(files) |-> submit(files[i], NoEntry)]
    /\ args' = [threads |-> threads, is_windows |-> is_windows,
                check_idmap |-> FALSE, check_root |-> FALSE]
    /\ taken' = [done |-> TRUE, is_windows |-> is_windows, fs |-> fs]
    /\ pc' = "baseline"
    /\ UNCHANGED <<parsed, current, report>>
    /\ baselines' = baselines + 1
    /\ UNCHANGED <<fs, hash_log_path, edits>>

\* baseline_consume leaving the loop at the first result with an error: the
\* file is closed and the results that are left are not written.
baseline_consume_until_error(i) ==
    /\ pc = "baseline"
    /\ i \in 1..Len(futures)
    /\ futures[i].state = "done"
    /\ LET result == futures[i].result IN
       IF result.raised
       THEN /\ pc' = "baseline_failed"
            /\ log' = [log EXCEPT !.text = @ \o log_pending]
            /\ log_pending' = ""
            /\ UNCHANGED <<error_count, futures>>
       ELSE /\ futures' = [futures EXCEPT ![i].state = "consumed"]
            /\ LET rel == IF args.is_windows THEN result.rel_path
                          ELSE relative_to(result.path, base_path).value
                   out == write(log.text, log_pending,
                                IF args.is_windows THEN file_line_windows(result, rel)
                                ELSE file_line_linux(result, rel))
               IN IF result.error # None
                  THEN /\ error_count' = error_count + 1
                       /\ pc' = "baseline_done"
                       /\ log' = [log EXCEPT !.text = @ \o log_pending]
                       /\ log_pending' = ""
                  ELSE /\ error_count' = error_count
                       /\ pc' = pc
                       /\ log' = [log EXCEPT !.text = out.disk]
                       /\ log_pending' = out.pending
    /\ UNCHANGED <<fs, hash_log_path, edits, baselines, taken, args, parsed, current, report>>

\* One iteration of the loop over as_completed(futures) in generate_baseline.
baseline_consume(i) ==
    /\ pc = "baseline"
    /\ i \in 1..Len(futures)
    /\ futures[i].state = "done"
    /\ LET result == futures[i].result IN
       IF result.raised
       THEN /\ pc' = "baseline_failed"
            /\ log' = [log EXCEPT !.text = @ \o log_pending]
            /\ log_pending' = ""
            /\ UNCHANGED <<error_count, futures>>
       ELSE /\ futures' = [futures EXCEPT ![i].state = "consumed"]
            /\ pc' = pc
            /\ LET rel == IF args.is_windows THEN result.rel_path
                          ELSE relative_to(result.path, base_path).value
                   out == write(log.text, log_pending,
                                IF args.is_windows THEN file_line_windows(result, rel)
                                ELSE file_line_linux(result, rel))
               IN IF result.error # None
                  THEN /\ error_count' = error_count + 1
                       /\ UNCHANGED <<log, log_pending>>
                  ELSE /\ error_count' = error_count
                       /\ log' = [log EXCEPT !.text = out.disk]
                       /\ log_pending' = out.pending
    /\ UNCHANGED <<fs, hash_log_path, edits, baselines, taken, args, parsed, current, report>>

\* The loop is over: the output file is closed, which puts the pending text
\* on disk, and the executor is shut down.
baseline_finish ==
    /\ pc = "baseline"
    /\ \A i \in 1..Len(futures) : futures[i].state = "consumed"
    /\ pc' = "baseline_done"
    /\ log' = [log EXCEPT !.text = @ \o log_pending]
    /\ log_pending' = ""
    /\ UNCHANGED <<fs, hash_log_path, edits, baselines, taken, args, futures, error_count,
                   parsed, current, report>>

(***************************************************************************)
(* verify_integrity: reading the baseline file.                            *)
(***************************************************************************)
\* A Python dict: the keys in insertion order and the value of each key.
dict_has(d, k) == k \in Range(d.keys)
dict_set(d, k, v) ==
    [keys |-> IF dict_has(d, k) THEN d.keys ELSE Append(d.keys, k),
     val |-> [x \in Range(d.keys) \cup {k} |-> IF x = k THEN v ELSE d.val[x]]]

\* The loop over the lines of the baseline file, from line n on.  acc.read
\* counts the lines gone through, acc.skipped lists the lines reported as
\* invalid, acc.error tells that int() raised ValueError at line acc.read + 1.
RECURSIVE parse_lines(_, _, _, _)
parse_lines(lines, n, is_windows, acc) ==
    IF n > Len(lines) THEN acc
    ELSE
    LET tokens == split(rstrip_nl(lines[n]), "  ")
        skip == [acc EXCEPT !.skipped = Append(@, n), !.read = n]
    IN
    IF tokens[1] = "DIR" THEN
        IF Len(tokens) # 5 THEN parse_lines(lines, n + 1, is_windows, skip)
        ELSE parse_lines(lines, n + 1, is_windows,
                 [acc EXCEPT !.baseline_dirs = @ \cup {tokens[2]}, !.read = n])
    ELSE IF tokens[1] = "FILE" THEN
        IF is_windows THEN
            IF Len(tokens) # 4 THEN parse_lines(lines, n + 1, is_windows, skip)
            ELSE
            LET expected_hash == tokens[2]
                rel_path == tokens[3]
                expected_size == int(tokens[4])
            IN IF ~expected_size.ok THEN [acc EXCEPT !.error = TRUE]
               ELSE parse_lines(lines, n + 1, is_windows,
                   [acc EXCEPT
                      !.baseline_files = dict_set(@, rel_path,
                          [expected_hash |-> expected_hash,
                           expected_size |-> expected_size.value]),
                      !.to_check_files = Append(@,
                          [expected_hash |-> expected_hash,
                           expected_size |-> expected_size.value,
                           rel_path |-> rel_path,
                           path |-> path_join(base_path, rel_path)]),
                      !.read = n])
        ELSE
            IF Len(tokens) # 7 THEN parse_lines(lines, n + 1, is_windows, skip)
            ELSE
            LET expected_hash == tokens[2]
                rel_path == tokens[3]
                expected_size == int(tokens[4])
                expected_uid == int(tokens[5])
                expected_gid == int(tokens[6])
                expected_mode == tokens[7]
            IN IF ~(expected_size.ok /\ expected_uid.ok /\ expected_gid.ok)
               THEN [acc EXCEPT !.error = TRUE]
               ELSE parse_lines(lines, n + 1, is_windows,
                   [acc EXCEPT
                      !.baseline_files = dict_set(@, rel_path,
                          [expected_hash |-> expected_hash,
                           expected_size |-> expected_size.value,
                           expected_uid |-> expected_uid.value,
                           expected_gid |-> expected_gid.value,
                           expected_mode |-> expected_mode]),
                      !.to_check_files = Append(@,
                          [expected_hash |-> expected_hash,
                           expected_size |-> expected_size.value,
                           expected_uid |-> expected_uid.value,
                           expected_gid |-> expected_gid.value,
                           expected_mode |-> expected_mode,
                           rel_path |-> rel_path,
                           path |-> path_join(base_path, rel_path)]),
                      !.read = n])
    ELSE parse_lines(lines, n + 1, is_windows, skip)

read_baseline(text, is_windows) == parse_lines(readlines(text), 1, is_windows, NoParsed)

Select(seq, S) == SelectSeq(seq, LAMBDA x : x \in S)

(***************************************************************************)
(* verify_integrity.                                                       *)
(***************************************************************************)
\* verify_integrity up to the loop over the results: the baseline file is
\* read, the tree is enumerated, the directories are compared and one task
\* per entry of to_check_files is submitted.  A ValueError of int() ends the
\* process at the line that raised it.
verify_integrity(threads, check_idmap, check_root, is_windows) ==
    /\ AtRest
    /\ log.exists
    /\ args' = [threads |-> threads, is_windows |-> is_windows,
                check_idmap |-> check_idmap, check_root |-> check_root]
    /\ UNCHANGED <<error_count, log_pending>>
    /\ LET p == read_baseline(log.text, is_windows)
           current_dirs == {relative_to(d, base_path).value : d \in get_all_dirs(base_path)}
           current_files == {relative_to(f, base_path).value : f \in get_all_files(base_path)}
           unstatable == {rel \in p.baseline_dirs \cap current_dirs :
                             ~is_windows /\ ~stat(path_join(base_path, rel)).ok}
       IN /\ parsed' = p
          /\ IF p.error
             THEN /\ pc' = "verify_failed"
                  /\ futures' = <<>>
                  /\ current' = NoCurrent
                  /\ report' = NoReport
             ELSE /\ pc' = "verify"
                  /\ current' = [current_dirs |-> current_dirs, current_files |-> current_files]
                  /\ futures' = [i \in 1..Len(p.to_check_files) |->
                                    submit(p.to_check_files[i].path, p.to_check_files[i])]
                  /\ \E b \in Orders(p.baseline_dirs), c \in Orders(current_dirs) :
                        report' = [NoReport EXCEPT
                            !.dir_missing = Select(b, p.baseline_dirs \ current_dirs),
                            !.dir_meta_mismatch =
                                [k \in 1..Len(Select(b, unstatable)) |->
                                    <<Select(b, unstatable)[k],
                                      stat(path_join(base_path, Select(b, unstatable)[k])).error>>],
                            !.dir_extra = Select(c, current_dirs \ p.baseline_dirs)]
    /\ UNCHANGED <<fs, hash_log_path, log, edits, baselines, taken>>

\* compare with the size test written as "the file grew".
compare_size_grew(rep, result, entry, a) ==
    LET rel == entry.rel_path
        add(list, cond) == IF cond THEN Append(list, rel) ELSE list
    IN
    IF result.error # None THEN [rep EXCEPT !.file_error = Append(@, rel)]
    ELSE IF a.is_windows THEN
        [rep EXCEPT
            !.file_hash_mismatch = add(@, result.hash # entry.expected_hash),
            !.file_size_mismatch = add(@, result.size > entry.expected_size)]
    ELSE
        [rep EXCEPT
            !.file_hash_mismatch = add(@, result.hash # entry.expected_hash),
            !.file_size_mismatch = add(@, result.size > entry.expected_size),
            !.file_uid_mismatch = add(@, result.uid # entry.expected_uid),
            !.file_gid_mismatch = add(@, result.gid # entry.expected_gid),
            !.file_mode_mismatch = add(@, result.mode # entry.expected_mode),
            !.file_idmap_issues = add(@, a.check_idmap /\ (result.uid = NOBODY_ID \/ result.gid = NOBODY_ID)),
            !.file_root_issues = add(@, a.check_root /\ (result.uid = ROOT_ID \/ result.gid = ROOT_ID))]

\* compare with each list assigned anew instead of appended to: a list keeps
\* the findings of the result compared last.
compare_last(rep, result, entry, a) ==
    LET rel == entry.rel_path
        one(cond) == IF cond THEN <<rel>> ELSE <<>>
    IN
    IF result.error # None THEN [rep EXCEPT !.file_error = <<rel>>]
    ELSE IF a.is_windows THEN
        [rep EXCEPT
            !.file_hash_mismatch = one(result.hash # entry.expected_hash),
            !.file_size_mismatch = one(result.size # entry.expected_size)]
    ELSE
        [rep EXCEPT
            !.file_hash_mismatch = one(result.hash # entry.expected_hash),
            !.file_size_mismatch = one(result.size # entry.expected_size),
            !.file_uid_mismatch = one(result.uid # entry.expected_uid),
            !.file_gid_mismatch = one(result.gid # entry.expected_gid),
            !.file_mode_mismatch = one(result.mode # entry.expected_mode),
            !.file_idmap_issues = one(a.check_idmap /\ (result.uid = NOBODY_ID \/ result.gid = NOBODY_ID)),
            !.file_root_issues = one(a.check_root /\ (result.uid = ROOT_ID \/ result.gid = ROOT_ID))]

\* compare with the root test made in both profiles, the owner of a result
\* that has none read as 0.
compare_root_any_profile(rep, result, entry, a) ==
    LET rel == entry.rel_path
        add(list, cond) == IF cond THEN Append(list, rel) ELSE list
    IN
    IF result.error # None THEN [rep EXCEPT !.file_error = Append(@, rel)]
    ELSE IF a.is_windows THEN
        [rep EXCEPT
            !.file_hash_mismatch = add(@, result.hash # entry.expected_hash),
            !.file_size_mismatch = add(@, result.size # entry.expected_size),
            !.file_root_issues = add(@, a.check_root)]
    ELSE
        [rep EXCEPT
            !.file_hash_mismatch = add(@, result.hash # entry.expected_hash),
            !.file_size_mismatch = add(@, result.size # entry.expected_size),
            !.file_uid_mismatch = add(@, result.uid # entry.expected_uid),
            !.file_gid_mismatch = add(@, result.gid # entry.expected_gid),
            !.file_mode_mismatch = add(@, result.mode # entry.expected_mode),
            !.file_idmap_issues = add(@, a.check_idmap /\ (result.uid = NOBODY_ID \/ result.gid = NOBODY_ID)),
            !.file_root_issues = add(@, a.check_root /\ (result.uid = ROOT_ID \/ result.gid = ROOT_ID))]

\* compare without the "continue" of the error branch: the checksum of a
\* result with an error is compared as well.
compare_error_falls_through(rep, result, entry, a) ==
    LET rel == entry.rel_path
        add(list, cond) == IF cond THEN Append(list, rel) ELSE list
    IN
    IF result.error # None
    THEN [rep EXCEPT !.file_error = Append(@, rel),
                     !.file_hash_mismatch = add(@, result.hash # entry.expected_hash)]
    ELSE IF a.is_windows THEN
        [rep EXCEPT
            !.file_hash_mismatch = add(@, result.hash # entry.expected_hash),
            !.file_size_mismatch = add(@, result.size # entry.expected_size)]
    ELSE
        [rep EXCEPT
            !.file_hash_mismatch = add(@, result.hash # entry.expected_hash),
            !.file_size_mismatch = add(@, result.size # entry.expected_size),
            !.file_uid_mismatch = add(@, result.uid # entry.expected_uid),
            !.file_gid_mismatch = add(@, result.gid # entry.expected_gid),
            !.file_mode_mismatch = add(@, result.mode # entry.expected_mode),
            !.file_idmap_issues = add(@, a.check_idmap /\ (result.uid = NOBODY_ID \/ result.gid = NOBODY_ID)),
            !.file_root_issues = add(@, a.check_root /\ (result.uid = ROOT_ID \/ result.gid = ROOT_ID))]

\* compare with the two policy tests made only for an owner or group that is
\* not the recorded one.
compare_flags_on_change(rep, result, entry, a) ==
    LET rel == entry.rel_path
        add(list, cond) == IF cond THEN Append(list, rel) ELSE list
    IN
    IF result.error # None THEN [rep EXCEPT !.file_error = Append(@, rel)]
    ELSE IF a.is_windows THEN
        [rep EXCEPT
            !.file_hash_mismatch = add(@, result.hash # entry.expected_hash),
            !.file_size_mismatch = add(@, result.size # entry.expected_size)]
    ELSE
        LET changed == result.uid # entry.expected_uid \/ result.gid # entry.expected_gid IN
        [rep EXCEPT
            !.file_hash_mismatch = add(@, result.hash # entry.expected_hash),
            !.file_size_mismatch = add(@, result.size # entry.expected_size),
            !.file_uid_mismatch = add(@, result.uid # entry.expected_uid),
            !.file_gid_mismatch = add(@, result.gid # entry.expected_gid),
            !.file_mode_mismatch = add(@, result.mode # entry.expected_mode),
            !.file_idmap_issues = add(@, changed /\ a.check_idmap /\ (result.uid = NOBODY_ID \/ result.gid = NOBODY_ID)),
            !.file_root_issues = add(@, changed /\ a.check_root /\ (result.uid = ROOT_ID \/ result.gid = ROOT_ID))]

\* The comparisons made for one result.
compare(rep, result, entry, a) ==
    LET rel == entry.rel_path
        add(list, cond) == IF cond THEN Append(list, rel) ELSE list
    IN
    IF result.error # None THEN [rep EXCEPT !.file_error = Append(@, rel)]
    ELSE IF a.is_windows THEN
        [rep EXCEPT
            !.file_hash_mismatch = add(@, result.hash # entry.expected_hash),
            !.file_size_mismatch = add(@, result.size # entry.expected_size)]
    ELSE
        [rep EXCEPT
            !.file_hash_mismatch = add(@, result.hash # entry.expected_hash),
            !.file_size_mismatch = add(@, result.size # entry.expected_size),
            !.file_uid_mismatch = add(@, result.uid # entry.expected_uid),
            !.file_gid_mismatch = add(@, result.gid # entry.expected_gid),
            !.file_mode_mismatch = add(@, result.mode # entry.expected_mode),
            !.file_idmap_issues = add(@, a.check_idmap /\ (result.uid = NOBODY_ID \/ result.gid = NOBODY_ID)),
            !.file_root_issues = add(@, a.check_root /\ (result.uid = ROOT_ID \/ result.gid = ROOT_ID))]

\* verify_consume noting each compared path in the baseline file.
verify_consume_logging(i) ==
    /\ pc = "verify"
    /\ i \in 1..Len(futures)
    /\ futures[i].state = "done"
    /\ LET result == futures[i].result IN
       IF result.raised
       THEN /\ pc' = "verify_failed"
            /\ UNCHANGED <<futures, report, log>>
       ELSE /\ pc' = pc
            /\ futures' = [futures EXCEPT ![i].state = "consumed"]
            /\ report' = compare(report, result, futures[i].entry, args)
            /\ log' = [log EXCEPT !.text = @ \o "# " \o futures[i].entry.rel_path \o "\n"]
    /\ UNCHANGED <<fs, hash_log_path, log_pending, edits, baselines, taken, args, error_count, parsed, current>>

\* One iteration of the loop over as_completed(futures) in verify_integrity.
\* future.result() re-raises what the task raised.
verify_consume(i) ==
    /\ pc = "verify"
    /\ i \in 1..Len(futures)
    /\ futures[i].state = "done"
    /\ LET result == futures[i].result IN
       IF result.raised
       THEN /\ pc' = "verify_failed"
            /\ UNCHANGED <<futures, report>>
       ELSE /\ pc' = pc
            /\ futures' = [futures EXCEPT ![i].state = "consumed"]
            /\ report' = compare(report, result, futures[i].entry, args)
    /\ UNCHANGED <<fs, hash_log_path, log, log_pending, edits, baselines, taken, args, error_count, parsed, current>>

\* missing_files with the test written without its "not".
missing_files_present(baseline_files, current_files) ==
    SelectSeq(baseline_files.keys, LAMBDA rel : rel \in current_files)

\* The loop over baseline_files: the keys that are not in current_files.
missing_files(baseline_files, current_files) ==
    SelectSeq(baseline_files.keys, LAMBDA rel : rel \notin current_files)

\* extra_files with the test written without its "not".
extra_files_recorded(c, baseline_files) ==
    SelectSeq(c, LAMBDA rel : dict_has(baseline_files, rel))

\* The loop over current_files, iterated in the order c: those that are no
\* key of baseline_files.
extra_files(c, baseline_files) ==
    SelectSeq(c, LAMBDA rel : ~dict_has(baseline_files, rel))

\* After the loop: missing and extra files, then the report is printed.
verify_finish ==
    /\ pc = "verify"
    /\ \A i \in 1..Len(futures) : futures[i].state = "consumed"
    /\ \E c \in Orders(current.current_files) :
          report' = [report EXCEPT
              !.file_missing = missing_files(parsed.baseline_files, current.current_files),
              !.file_extra = extra_files(c, parsed.baseline_files)]
    /\ pc' = "verify_done"
    /\ UNCHANGED <<fs, hash_log_path, log, log_pending, edits, baselines, taken, args, futures,
                   error_count, parsed, current>>

\* The process ends: normally, with exit status 1, or on the uncaught
\* exception once the executor, shut down on the way out of the with block,
\* has run the tasks still queued.  Nothing of it remains but the files.
process_exit ==
    /\ \/ pc \in {"baseline_done", "verify_done", "exit1"}
       \/ pc \in {"baseline_failed", "verify_failed"} /\ \A i \in 1..Len(futures) : futures[i].state \in {"done", "consumed"}
    /\ pc' = "idle"
    /\ futures' = <<>> /\ error_count' = 0 /\ args' = NoArgs
    /\ parsed' = NoParsed /\ current' = NoCurrent /\ report' = NoReport
    /\ UNCHANGED <<fs, hash_log_path, log, log_pending, edits, baselines, taken>>

\* The entry point, verify mode, when the baseline file does not exist.
main_log_not_found ==
    /\ AtRest
    /\ ~log.exists
    /\ pc' = "exit1"
    /\ UNCHANGED <<futures, error_count, args, parsed, current, report>>
    /\ UNCHANGED <<fs, hash_log_path, log, log_pending, edits, baselines, taken>>

(***************************************************************************)
(* The environment: the tree a run starts from, baseline files that come   *)
(* from elsewhere than a baseline run of this tree, and the changes made   *)
(* to the tree between a baseline run and a verify run.                    *)
(***************************************************************************)
Contents ==
    { <<97, 0, 0, 0, 0>>,            \* crc 6270a9e0
      <<97, 0, 0, 0, 1>>,            \* same length, crc 15779976
      <<98, 186, 81, 9, 153>>,       \* same length, crc 6270a9e0 again
      <<>>,                          \* another length, crc 00000000
      <<99, 99, 58, 164, 5, 51>> }   \* another length, crc 6270a9e0 again

Ids == {ROOT_ID, ProcUid, NOBODY_ID}
Perms == {0, 420}                 \* 0o000, 0o644

FilePaths == {"/srv/a", "/srv/d/b", "/srv/n"}
DirPaths == {"/srv/d", "/srv/e"}

\* Files that are never changed: a name with a space, a name with
\* consecutive spaces, a file that the process cannot read.
OddPaths == {"/srv/s p", "/srv/q  1  2  3", "/srv/locked"}

Paths == FilePaths \cup DirPaths \cup OddPaths

Tree ==
    [p \in Paths |->
        CASE p = "/srv/a"   -> RegFile(<<97, 0, 0, 0, 0>>, ProcUid, ProcGid, 420)
          [] p = "/srv/d"   -> Directory(ProcUid, ProcGid, 493)
          [] p = "/srv/d/b" -> RegFile(<<>>, ProcUid, ROOT_ID, 420)
          [] OTHER          -> Absent]

\* The same tree without the file d/b.
SmallTree == [Tree EXCEPT !["/srv/d/b"] = Absent]

\* A tree of the three odd files.
OddTree ==
    [p \in Paths |->
        CASE p = "/srv/s p"        -> RegFile(<<97, 0, 0, 0, 0>>, ProcUid, ProcGid, 420)
          [] p = "/srv/q  1  2  3" -> RegFile(<<>>, ProcUid, ProcGid, 420)
          [] p = "/srv/locked"     -> RegFile(<<97, 0, 0, 0, 1>>, ROOT_ID, ROOT_ID, 384)
          [] OTHER                 -> Absent]

\* Baseline files written by hand or damaged: lines of both profiles with
\* checksums the files do not have, a directory recorded with another owner
\* and mode than it has, a directory that is not there, lines that are not
\* records, fields that are not numbers, a path recorded twice, an absolute
\* path.
MixedBaseline ==
    "DIR  d  0  0  drwx------\n"
    \o "# integrity baseline\n"
    \o "FILE  0badf00d  a  5  1000  1000  -rw-r--r--\n"
    \o "FILE  0badf00d  a  5\n"
    \o "DIR  e  1000\n"
    \o "FILE  ffffffff  d/b  0  1000  1000  -rw-r--r--\n"
    \o "FILE  ffffffff  d/b  0\n"
    \o "DIR  e  1000  1000  drwxr-xr-x\n"

DamagedBaseline ==
    "FILE  6270a9e0  a  5  1000  1000  -rw-r--r--\n"
    \o "FILE  6270a9e0  a  5\n"
    \o "FILE\n"
    \o "FILE  00000000  d/b  0  1000  none  -rw-r--r--\n"
    \o "FILE  00000000  d/b  0x0\n"
    \o "DIR  d  1000  1000  drwxr-xr-x\n"

TwiceBaseline ==
    "FILE  deadbeef  a  5  1000  1000  -rw-r--r--\n"
    \o "FILE  6270a9e0  a  5  1000  1000  -rw-r--r--\n"
    \o "FILE  deadbeef  a  5\n"
    \o "FILE  6270a9e0  a  5\n"

AbsoluteBaseline ==
    "FILE  00000000  /etc/hostname  0\n"
    \o "FILE  00000000  /etc/hostname  0  0  0  -rw-r--r--\n"
    \o "FILE  6270a9e0  a  5\n"
    \o "FILE  6270a9e0  a  5  1000  1000  -rw-r--r--\n"

GivenBaselines == {MixedBaseline, DamagedBaseline, TwiceBaseline, AbsoluteBaseline}

MayEdit == AtRest /\ taken.done /\ edits < MaxEdits

Edit(p, e) ==
    /\ fs' = [fs EXCEPT ![p] = e]
    /\ edits' = edits + 1
    /\ UNCHANGED <<hash_log_path, log, log_pending, baselines, taken, pc, args, futures, error_count,
                   parsed, current, report>>

HasChildren(d) == \E q \in DOMAIN fs : startswith(q, d \o "/") /\ fs[q].st_mode # 0
ParentExists(p) ==
    \/ SubSeq(p, 1, Len(p) - Len(name(p)) - 1) = base_path
    \/ is_dir(SubSeq(p, 1, Len(p) - Len(name(p)) - 1))

\* The content of a file is replaced.
env_write(p, data) ==
    /\ MayEdit /\ p \in FilePaths /\ is_file(p) /\ data # fs[p].data
    /\ Edit(p, [fs[p] EXCEPT !.data = data])

\* A file or an empty directory is removed.
env_remove(p) ==
    /\ MayEdit /\ fs[p].st_mode # 0 /\ ~HasChildren(p)
    /\ Edit(p, Absent)

\* A file is created.
env_create(p, data) ==
    /\ MayEdit /\ p \in FilePaths /\ fs[p].st_mode = 0 /\ ParentExists(p)
    /\ Edit(p, RegFile(data, ProcUid, ProcGid, 420))

\* A directory is created.
env_mkdir(p) ==
    /\ MayEdit /\ p \in DirPaths /\ fs[p].st_mode = 0 /\ ParentExists(p)
    /\ Edit(p, Directory(ProcUid, ProcGid, 493))

\* The owner or the group of a file is changed.
env_chown(p, uid, gid) ==
    /\ MayEdit /\ p \in FilePaths /\ is_file(p)
    /\ (uid = fs[p].st_uid) # (gid = fs[p].st_gid)
    /\ Edit(p, [fs[p] EXCEPT !.st_uid = uid, !.st_gid = gid])

\* The permission bits of a file are changed.
env_chmod(p, perm) ==
    /\ MayEdit /\ p \in FilePaths /\ is_file(p) /\ S_IFREG + perm # fs[p].st_mode
    /\ Edit(p, [fs[p] EXCEPT !.st_mode = S_IFREG + perm])

(***************************************************************************)
(* Specification.                                                          *)
(***************************************************************************)
Init ==
    /\ \/ /\ hash_log_path = ExplicitLog
          /\ fs = Tree
          /\ log \in {NoFile} \cup {[exists |-> TRUE, text |-> t] : t \in GivenBaselines}
       \/ /\ hash_log_path = DefaultLog
          /\ fs = SmallTree
          /\ log \in {NoFile, [exists |-> TRUE, text |-> MixedBaseline]}
       \/ /\ hash_log_path = ExplicitLog
          /\ fs = OddTree
          /\ log = NoFile
    /\ log_pending = ""
    /\ edits = 0
    /\ baselines = 0
    /\ taken = NoBaseline
    /\ pc = "idle"
    /\ args = NoArgs
    /\ futures = <<>>
    /\ error_count = 0
    /\ parsed = NoParsed
    /\ current = NoCurrent
    /\ report = NoReport

Next ==
    \/ \E t \in 1..MaxThreads, w \in BOOLEAN : generate_baseline(t, w)
    \/ \E i \in 1..Len(futures) : baseline_consume(i)
    \/ baseline_finish
    \/ \E t \in 1..MaxThreads, m \in BOOLEAN, r \in BOOLEAN, w \in BOOLEAN :
          verify_integrity(t, m, r, w)
    \/ \E i \in 1..Len(futures) : verify_consume(i)
    \/ verify_finish
    \/ main_log_not_found
    \/ process_exit
    \/ \E i \in 1..Len(futures) : worker_start(i)
    \/ \E i \in 1..Len(futures) : worker_finish(i)
    \/ \E p \in FilePaths, data \in Contents : env_write(p, data)
    \/ \E p \in FilePaths \cup DirPaths : env_remove(p)
    \/ \E p \in FilePaths : env_create(p, <<>>)
    \/ \E p \in DirPaths : env_mkdir(p)
    \/ \E p \in FilePaths, uid \in Ids, gid \in Ids : env_chown(p, uid, gid)
    \/ \E p \in FilePaths, perm \in Perms : env_chmod(p, perm)

Spec == Init /\ [][Next]_vars

\* The steps of a run in progress: those of the worker threads, those of
\* the loop over the results in the orchestrating thread, and the end of the
\* process.  The threads are scheduled by the operating system: a step that
\* stays possible is taken.  Nothing makes anyone start a run.
RunStep ==
    \/ \E i \in 1..Len(futures) : worker_start(i)
    \/ \E i \in 1..Len(futures) : worker_finish(i)
    \/ \E i \in 1..Len(futures) : baseline_consume(i)
    \/ baseline_finish
    \/ \E i \in 1..Len(futures) : verify_consume(i)
    \/ verify_finish
    \/ process_exit

\* Every step of a run changes the position of the process or the state of
\* a task.
progress == <<pc, [i \in 1..Len(futures) |-> futures[i].state]>>

FairSpec == Spec /\ WF_progress(RunStep)

(***************************************************************************)
(* The diff of a verify run and the properties stated of it.               *)
(***************************************************************************)
FileCategories ==
    {"file_missing", "file_extra", "file_error", "file_hash_mismatch", "file_size_mismatch",
     "file_uid_mismatch", "file_gid_mismatch", "file_mode_mismatch", "file_idmap_issues",
     "file_root_issues"}
RichCategories ==
    {"file_uid_mismatch", "file_gid_mismatch", "file_mode_mismatch", "file_idmap_issues",
     "file_root_issues"}
TaskCategories ==
    {"file_error", "file_hash_mismatch", "file_size_mismatch"} \cup RichCategories

InCategory(cat, rel) == rel \in Range(report[cat])

rel_of(p) == relative_to(p, base_path).value

\* A verify run has read the baseline file (and may have ended).
InVerify == pc \in {"verify", "verify_done", "verify_failed"}

\* The verify run has gone through to its report.
VerifyDone == pc = "verify_done"

\* The verify run follows a baseline run of the same profile, which recorded
\* the tree taken.fs in the baseline file that the verify run has read.
AfterBaseline == taken.done /\ args.is_windows = taken.is_windows

WasFile(p) == S_IFMT(taken.fs[p].st_mode) = S_IFREG

\* The task of p was dispatched and returned a result without error.
Recomputed(p) ==
    \E i \in 1..Len(futures) :
        /\ futures[i].file_path = p
        /\ futures[i].state = "consumed"
        /\ futures[i].result.error = None

\* C1 (round trip): a verify run that follows a baseline run of the same
\* profile and log location, the tree being the one the baseline run saw,
\* reports nothing: MissingDir, ExtraDir, MissingFile, ExtraFile,
\* FileReadError and the five mismatch categories are empty.
C1_RoundTripEmptyDiff ==
    (VerifyDone /\ AfterBaseline /\ fs = taken.fs) =>
        \A cat \in {"dir_missing", "dir_extra", "file_missing", "file_extra", "file_error",
                    "file_hash_mismatch", "file_size_mismatch", "file_uid_mismatch",
                    "file_gid_mismatch", "file_mode_mismatch"} :
            report[cat] = <<>>

\* C2 (deletion): a file that the baseline records and that has been removed
\* from the tree before the verify run is in MissingFile and in no other
\* category of that run's diff.
C2_RemovedFileOnlyMissing ==
    (VerifyDone /\ taken.done) =>
        \A p \in FilePaths :
            (WasFile(p) /\ fs[p].st_mode = 0 /\ dict_has(parsed.baseline_files, rel_of(p))) =>
                /\ InCategory("file_missing", rel_of(p))
                /\ \A cat \in FileCategories \ {"file_missing"} : ~InCategory(cat, rel_of(p))

\* C3 (addition): a regular file of the tree that no record of the baseline
\* names is in ExtraFile and in no other category of the diff, and at no
\* moment of the verify run is there a task for it.
C3_UnrecordedFileOnlyExtra ==
    \A p \in get_all_files(base_path) :
        (/\ InVerify
         /\ ~parsed.error
         /\ ~dict_has(parsed.baseline_files, rel_of(p))
         /\ rel_of(p) \notin parsed.baseline_dirs
         /\ \A k \in 1..Len(parsed.to_check_files) : parsed.to_check_files[k].path # p) =>
            /\ \A i \in 1..Len(futures) : futures[i].file_path # p
            /\ VerifyDone =>
                  /\ InCategory("file_extra", rel_of(p))
                  /\ \A cat \in (FileCategories \cup {"dir_missing", "dir_extra"}) \ {"file_extra"} :
                        ~InCategory(cat, rel_of(p))

C3_Witness ==
    /\ VerifyDone /\ AfterBaseline
    /\ taken.fs["/srv/n"].st_mode = 0
    /\ is_file("/srv/n")
    /\ report.file_extra = <<"n">>
    /\ Len(futures) = 2
    /\ \A i \in 1..Len(futures) : futures[i].state = "consumed"

\* C4 (per-field classification): for every file record of the baseline
\* whose recomputation succeeds, the path is in HashMismatch iff the
\* recomputed checksum differs from the recorded one, in SizeMismatch iff the
\* size differs, and under the Rich profile in UidMismatch, GidMismatch,
\* ModeMismatch iff the respective value differs from the recorded one.
C4_PerFieldClassification ==
    VerifyDone =>
        \A i \in 1..Len(futures) :
            LET entry == futures[i].entry
                result == futures[i].result
            IN result.error = None =>
                /\ InCategory("file_hash_mismatch", entry.rel_path)
                       <=> result.hash # entry.expected_hash
                /\ InCategory("file_size_mismatch", entry.rel_path)
                       <=> result.size # entry.expected_size
                /\ ~args.is_windows =>
                      /\ InCategory("file_uid_mismatch", entry.rel_path)
                             <=> result.uid # entry.expected_uid
                      /\ InCategory("file_gid_mismatch", entry.rel_path)
                             <=> result.gid # entry.expected_gid
                      /\ InCategory("file_mode_mismatch", entry.rel_path)
                             <=> result.mode # entry.expected_mode

\* C5 as stated (corruption detection): a baselined file whose content has
\* been replaced by a different content is in HashMismatch; it is in
\* SizeMismatch iff the length of the new content is not the recorded one.
C5_AnyReplacementDetected ==
    (VerifyDone /\ AfterBaseline) =>
        \A p \in FilePaths :
            (WasFile(p) /\ Recomputed(p) /\ fs[p].data # taken.fs[p].data) =>
                /\ InCategory("file_hash_mismatch", rel_of(p))
                /\ InCategory("file_size_mismatch", rel_of(p))
                       <=> Len(fs[p].data) # Len(taken.fs[p].data)

\* C5 as amended: a baselined file whose recomputation succeeds is in
\* HashMismatch iff the CRC-32 of its content is not the CRC-32 of the
\* content the baseline run read, and in SizeMismatch iff the length of its
\* content is not the length the baseline run saw.
C5_ChecksumAndSizeDetection ==
    (VerifyDone /\ AfterBaseline) =>
        \A p \in FilePaths :
            (WasFile(p) /\ Recomputed(p)) =>
                /\ InCategory("file_hash_mismatch", rel_of(p))
                       <=> crc32_of_file(fs[p].data) # crc32_of_file(taken.fs[p].data)
                /\ InCategory("file_size_mismatch", rel_of(p))
                       <=> Len(fs[p].data) # Len(taken.fs[p].data)

C5_Witness ==
    /\ VerifyDone /\ AfterBaseline
    /\ WasFile("/srv/a") /\ Recomputed("/srv/a")
    /\ fs["/srv/a"].data # taken.fs["/srv/a"].data
    /\ Len(fs["/srv/a"].data) = Len(taken.fs["/srv/a"].data)
    /\ InCategory("file_hash_mismatch", "a")
    /\ ~InCategory("file_size_mismatch", "a")

\* The report of the run in which the tasks are run and their results
\* compared one at a time, in the order of submission.
RECURSIVE one_by_one(_, _, _)
one_by_one(entries, n, rep) ==
    IF n > Len(entries) THEN rep
    ELSE one_by_one(entries, n + 1,
             compare(rep, run_task(entries[n].path, stat(entries[n].path), args.is_windows),
                     entries[n], args))

\* C6 (concurrency invariance): whatever the number of workers and the order
\* in which the tasks complete and are consumed, each category of the report
\* holds the set of paths that the run of one worker taking the tasks one by
\* one yields for the same baseline and tree.
C6_SameSetsForAnyWorkerCount ==
    VerifyDone =>
        /\ \A cat \in TaskCategories :
              Range(report[cat]) = Range(one_by_one(parsed.to_check_files, 1, NoReport)[cat])
        /\ Range(report.file_missing) = Range(parsed.baseline_files.keys) \ current.current_files
        /\ Range(report.file_extra) = current.current_files \ Range(parsed.baseline_files.keys)
        /\ Range(report.dir_missing) = parsed.baseline_dirs \ current.current_dirs
        /\ Range(report.dir_extra) = current.current_dirs \ parsed.baseline_dirs

C6_Witness ==
    /\ VerifyDone
    /\ args.threads > 1
    /\ Len(parsed.to_check_files) = 2
    /\ parsed.to_check_files[1].rel_path = "a"
    /\ report.file_hash_mismatch = <<"d/b", "a">>

\* C7 (profile isolation): in a verify run under the SizeOnly profile,
\* UidMismatch, GidMismatch, ModeMismatch, IdMapFlag and RootFlag are empty
\* in every state.
C7_SizeOnlyReportsNoRichCategory ==
    (InVerify /\ args.is_windows) => \A cat \in RichCategories : report[cat] = <<>>

C7_Witness ==
    /\ VerifyDone /\ AfterBaseline
    /\ args.is_windows /\ args.check_idmap /\ args.check_root
    /\ \E p \in FilePaths :
          /\ WasFile(p) /\ Recomputed(p)
          /\ fs[p].st_uid = ROOT_ID
          /\ taken.fs[p].st_uid # ROOT_ID

\* The fields of a line of the baseline file, and whether the line has the
\* leading token and the number of fields of a record of the profile.
line_tokens(line) == split(rstrip_nl(line), "  ")
has_record_shape(tokens, is_windows) ==
    \/ tokens[1] = "DIR" /\ Len(tokens) = 5
    \/ tokens[1] = "FILE" /\ Len(tokens) = (IF is_windows THEN 4 ELSE 7)

\* The parsed baseline holds the record of the line.
yields_record(tokens) ==
    IF tokens[1] = "DIR" THEN tokens[2] \in parsed.baseline_dirs
    ELSE \E k \in 1..Len(parsed.to_check_files) :
            /\ parsed.to_check_files[k].rel_path = tokens[3]
            /\ parsed.to_check_files[k].expected_hash = tokens[2]

\* C8 (malformed-line tolerance): when verify has read the baseline file,
\* every line that has not the shape of a record has been skipped with a
\* diagnostic, every other line has yielded its record, and the lines have
\* been gone through to the last one.
C8_MalformedLinesSkippedOthersKept ==
    InVerify =>
        LET lines == readlines(log.text) IN
        /\ parsed.read = Len(lines)
        /\ \A n \in 1..Len(lines) :
              IF has_record_shape(line_tokens(lines[n]), args.is_windows)
              THEN n \notin Range(parsed.skipped) /\ yields_record(line_tokens(lines[n]))
              ELSE n \in Range(parsed.skipped)

\* C9 (per-line fault containment): no line of the baseline file makes the
\* verify run fail; a field that is not an integer is a fault of its line.
C9_LineFaultsContained ==
    InVerify => ~parsed.error

\* C10 (task failure isolation): whatever fails inside a task comes back as
\* the error result of the task; no task raises into the loop that consumes
\* the results.
C10_TaskFailureIsAResult ==
    \A i \in 1..Len(futures) :
        futures[i].state \in {"done", "consumed"} => ~futures[i].result.raised

\* C11 (read-error exclusion): a file record of the baseline whose
\* recomputation in the verify run returned an error is in FileReadError and
\* in none of HashMismatch, SizeMismatch, UidMismatch, GidMismatch,
\* ModeMismatch, IdMapFlag, RootFlag of that run.
C11_ReadErrorExcludesComparisons ==
    InVerify =>
        \A i \in 1..Len(futures) :
            (/\ futures[i].state = "consumed"
             /\ futures[i].result.error # None) =>
                /\ InCategory("file_error", futures[i].entry.rel_path)
                /\ \A cat \in TaskCategories \ {"file_error"} :
                      ~InCategory(cat, futures[i].entry.rel_path)

\* The file a is there and can no longer be read by the process, its mode
\* is not the recorded one, and another file was compared in the same run.
C11_Witness ==
    /\ VerifyDone /\ AfterBaseline /\ ~args.is_windows
    /\ is_file("/srv/a")
    /\ ~may_read(fs["/srv/a"])
    /\ fs["/srv/a"].st_mode # taken.fs["/srv/a"].st_mode
    /\ report.file_error = <<"a">>
    /\ Recomputed("/srv/d/b")

\* What a baseline run has written to its output file so far, on disk or
\* still in the buffer of the file object.
written_so_far == log.text \o log_pending

InBaseline == pc \in {"baseline", "baseline_done", "baseline_failed"}

is_dir_line(line) == startswith(line, "DIR  ")
is_file_line(line) == startswith(line, "FILE  ")

\* C12 (baseline write ordering): in every state of a baseline run, in what
\* has been written to the baseline file no FILE line precedes a DIR line.
C12_DirLinesBeforeFileLines ==
    InBaseline =>
        LET lines == readlines(written_so_far) IN
        \A i, j \in 1..Len(lines) :
            (i < j /\ is_file_line(lines[i])) => ~is_dir_line(lines[j])

\* A baseline run of several workers has written a DIR line and the FILE
\* lines of two files, in the order opposite to that of their submission.
C12_Witness ==
    /\ pc = "baseline_done"
    /\ args.threads > 1
    /\ Len(futures) = 2
    /\ futures[1].file_path = "/srv/a"
    /\ LET lines == readlines(log.text) IN
       /\ Len(lines) = 3
       /\ is_dir_line(lines[1])
       /\ startswith(lines[2], "FILE  00000000  d/b  ")
       /\ startswith(lines[3], "FILE  6270a9e0  a  ")

\* C13 (policy flags): in a verify run of the Rich profile, a file record
\* whose recomputation succeeded is in IdMapFlag iff the anonymous-mapping
\* check is on and the uid or gid the file has is 65534, and in RootFlag iff
\* the root check is on and the uid or gid the file has is 0, whatever the
\* recorded values; a uid or gid that is not the recorded one puts the path
\* in UidMismatch or GidMismatch whether or not a flag is raised.
C13_PolicyFlagsFromCurrentValues ==
    (InVerify /\ ~args.is_windows) =>
        \A i \in 1..Len(futures) :
            LET entry == futures[i].entry
                now == stat(futures[i].file_path)
            IN (futures[i].state = "consumed" /\ futures[i].result.error = None) =>
                /\ InCategory("file_idmap_issues", entry.rel_path)
                      <=> (args.check_idmap /\ (now.st_uid = NOBODY_ID \/ now.st_gid = NOBODY_ID))
                /\ InCategory("file_root_issues", entry.rel_path)
                      <=> (args.check_root /\ (now.st_uid = ROOT_ID \/ now.st_gid = ROOT_ID))
                /\ now.st_uid # entry.expected_uid => InCategory("file_uid_mismatch", entry.rel_path)
                /\ now.st_gid # entry.expected_gid => InCategory("file_gid_mismatch", entry.rel_path)

\* Both checks are on; a has been given to the anonymous user since the
\* baseline run and is flagged and in UidMismatch; d/b belongs to the group
\* root as it did at the baseline run and is flagged, without GidMismatch.
C13_Witness ==
    /\ VerifyDone /\ AfterBaseline /\ ~args.is_windows
    /\ args.check_idmap /\ args.check_root
    /\ fs["/srv/a"].st_uid = NOBODY_ID
    /\ InCategory("file_idmap_issues", "a")
    /\ InCategory("file_uid_mismatch", "a")
    /\ ~InCategory("file_root_issues", "a")
    /\ fs["/srv/d/b"].st_gid = taken.fs["/srv/d/b"].st_gid
    /\ InCategory("file_root_issues", "d/b")
    /\ ~InCategory("file_gid_mismatch", "d/b")

\* The directory and file paths that the lines of the baseline file record
\* for the profile of the run, and those the tree holds.
recorded_dirs ==
    LET lines == readlines(log.text) IN
    {line_tokens(lines[n])[2] :
        n \in {k \in 1..Len(lines) : /\ line_tokens(lines[k])[1] = "DIR"
                                     /\ Len(line_tokens(lines[k])) = 5}}
recorded_files ==
    LET lines == readlines(log.text) IN
    {line_tokens(lines[n])[3] :
        n \in {k \in 1..Len(lines) :
                  /\ line_tokens(lines[k])[1] = "FILE"
                  /\ Len(line_tokens(lines[k])) = (IF args.is_windows THEN 4 ELSE 7)}}
tree_dirs == {rel_of(d) : d \in get_all_dirs(base_path)}
tree_files == {rel_of(f) : f \in get_all_files(base_path)}

NoRepeat(seq) == Cardinality(Range(seq)) = Len(seq)

\* C14 (existence reconciliation): a verify run reports MissingDir = D_b \ D_c,
\* ExtraDir = D_c \ D_b, MissingFile = F_b \ F_c, ExtraFile = F_c \ F_b,
\* each path once, and a directory is in DirMetaError only if probing it
\* fails.
C14_ExistenceReconciliation ==
    VerifyDone =>
        /\ Range(report.dir_missing) = recorded_dirs \ tree_dirs
        /\ Range(report.dir_extra) = tree_dirs \ recorded_dirs
        /\ Range(report.file_missing) = recorded_files \ tree_files
        /\ Range(report.file_extra) = tree_files \ recorded_files
        /\ \A cat \in {"dir_missing", "dir_extra", "file_missing", "file_extra"} :
              NoRepeat(report[cat])
        /\ \A k \in 1..Len(report.dir_meta_mismatch) :
              ~stat(path_join(base_path, report.dir_meta_mismatch[k][1])).ok

\* A Rich verify run of a baseline that records a directory that is not
\* there, a file that is not there, and the directory d with another owner
\* and mode than it has; the tree holds a file that is not recorded.
C14_Witness ==
    /\ VerifyDone /\ ~args.is_windows
    /\ report.dir_missing = <<"e">>
    /\ report.file_missing = <<"d/b">>
    /\ report.file_extra = <<HASH_LOG_NAME>>
    /\ "d" \in recorded_dirs \cap tree_dirs
    /\ \E n \in 1..Len(readlines(log.text)) :
          LET tokens == line_tokens(readlines(log.text)[n]) IN
          /\ Len(tokens) = 5 /\ tokens[1] = "DIR" /\ tokens[2] = "d"
          /\ tokens[5] # filemode(fs["/srv/d"].st_mode)
          /\ tokens[3] # str_int(fs["/srv/d"].st_uid)
    /\ report.dir_meta_mismatch = <<>>

\* The verify run reads the baseline file that a baseline run of the other
\* profile wrote.
AfterOtherProfile == taken.done /\ args.is_windows # taken.is_windows

\* C15 (cross-profile rejection): when a baseline written under one profile
\* is verified under the other, every FILE line is skipped as invalid, no
\* file record enters the parsed baseline, no task is dispatched, and the
\* DIR lines are parsed as they are under the profile that wrote them.
C15_OtherProfileFileLinesRejected ==
    (InVerify /\ AfterOtherProfile) =>
        LET lines == readlines(log.text) IN
        /\ ~parsed.error
        /\ \A n \in 1..Len(lines) : is_file_line(lines[n]) => n \in Range(parsed.skipped)
        /\ parsed.baseline_files.keys = <<>>
        /\ parsed.to_check_files = <<>>
        /\ futures = <<>>
        /\ parsed.baseline_dirs = recorded_dirs

\* C16 (codec round trip): a verify run of the profile of the baseline run
\* skips no line of the baseline file and parses, for every directory the
\* baseline run recorded, its relative path, and for every file the
\* baseline run could read, a record with its relative path, checksum and
\* size, and under the Rich profile its uid, gid and mode.
C16_CodecRoundTrip ==
    (InVerify /\ AfterBaseline) =>
        /\ ~parsed.error
        /\ parsed.skipped = <<>>
        /\ \A p \in Paths :
              S_IFMT(taken.fs[p].st_mode) = S_IFDIR => rel_of(p) \in parsed.baseline_dirs
        /\ \A p \in Paths :
              (WasFile(p) /\ may_read(taken.fs[p])) =>
                  \E k \in 1..Len(parsed.to_check_files) :
                      LET entry == parsed.to_check_files[k] IN
                      /\ entry.rel_path = rel_of(p)
                      /\ entry.expected_hash = crc32_of_file(taken.fs[p].data)
                      /\ entry.expected_size = Len(taken.fs[p].data)
                      /\ ~args.is_windows =>
                            /\ entry.expected_uid = taken.fs[p].st_uid
                            /\ entry.expected_gid = taken.fs[p].st_gid
                            /\ entry.expected_mode = filemode(taken.fs[p].st_mode)

\* C17 (verify leaves the baseline unchanged): no step of a verify run, from
\* the one that starts it to the one that ends the process, changes the
\* baseline file or writes to it.
C17_VerifyKeepsBaselineFile ==
    [][(InVerify \/ InVerify') =>
          (log' = log /\ log_pending' = log_pending /\ hash_log_path' = hash_log_path)]_vars

\* A verify run that skipped lines and found mismatches has ended.
C17_Witness ==
    /\ VerifyDone
    /\ log.text = MixedBaseline
    /\ parsed.skipped # <<>>
    /\ report.file_hash_mismatch # <<>>
    /\ report.dir_missing # <<>>

\* The lines of the baseline file that are FILE lines, and the tasks of the
\* run that returned an error.
file_lines(text) == {n \in 1..Len(readlines(text)) : is_file_line(readlines(text)[n])}
failed_tasks == {i \in 1..Len(futures) : futures[i].result.error # None}

\* C18 (baseline completeness under partial failure): when a baseline run
\* has ended, every regular file of the tree was enumerated once; a file
\* whose task succeeded has exactly one FILE line, a file whose task failed
\* has none and was counted as one error; the FILE lines and the errors add
\* up to the number of enumerated files.
C18_EveryFileLineOrError ==
    pc = "baseline_done" =>
        LET lines == readlines(log.text) IN
        /\ \A i \in 1..Len(futures) : futures[i].state = "consumed"
        /\ NoRepeat([i \in 1..Len(futures) |-> futures[i].file_path])
        /\ \A p \in Paths : WasFile(p) => \E i \in 1..Len(futures) : futures[i].file_path = p
        /\ \A i \in 1..Len(futures) :
              LET result == futures[i].result
                  rel == rel_of(futures[i].file_path)
              IN IF result.error = None
                 THEN Cardinality({n \in file_lines(log.text) :
                          startswith(lines[n], "FILE  " \o result.hash \o "  " \o rel \o "  "
                                                   \o str_int(result.size))}) = 1
                 ELSE \A n \in file_lines(log.text) :
                          ~startswith(SubSeq(lines[n], 17, Len(lines[n])), rel \o "  ")
        /\ error_count = Cardinality(failed_tasks)
        /\ Cardinality(file_lines(log.text)) + error_count = Len(futures)

\* A baseline run of several workers over three files, one of which cannot
\* be read, has ended: two FILE lines and one error.
C18_Witness ==
    /\ pc = "baseline_done"
    /\ args.threads > 1
    /\ Len(futures) = 3
    /\ error_count = 1
    /\ Cardinality(file_lines(log.text)) = 2
    /\ \E i \in failed_tasks : futures[i].file_path = "/srv/locked"

\* A run has passed the checks of the entry point and has not ended; a run
\* has gone through to its end with every submitted task consumed.
InRun == pc \in {"baseline", "verify", "baseline_failed", "verify_failed"}
RunFinished ==
    /\ pc \in {"baseline_done", "verify_done"}
    /\ \A i \in 1..Len(futures) : futures[i].state = "consumed"

\* C19 (run to completion): under fair scheduling of the workers, a baseline
\* or verify run that has started is followed by the end of a run in which
\* one result was consumed for each submitted task; no failure cancels it.
C19_RunToCompletion == [](InRun => <>RunFinished)

\* C20 (the baseline file is never its own input): in a baseline run no
\* task is submitted for the baseline file, which the run has open for
\* writing, and what a baseline run writes holds no FILE line whose path is
\* the baseline file.
C20_BaselineFileNotItsOwnInput ==
    taken.done =>
        /\ InBaseline => \A i \in 1..Len(futures) : futures[i].file_path # hash_log_path
        /\ \A n \in file_lines(written_so_far) :
              line_tokens(readlines(written_so_far)[n])[3] # HASH_LOG_NAME

\* C21 (one classification per path): in a verify run that has parsed its
\* baseline file, whatever the file holds, one task is dispatched for each distinct file path
\* of the baseline, the task is compared against the record that the parsed
\* baseline keeps for its path, and no path occurs twice in a category.
C21_OneClassificationPerPath ==
    pc \in {"verify", "verify_done"} =>
        /\ Len(futures) = Len(parsed.baseline_files.keys)
        /\ NoRepeat([i \in 1..Len(futures) |-> futures[i].file_path])
        /\ \A i \in 1..Len(futures) :
              LET entry == futures[i].entry
                  kept == parsed.baseline_files.val[entry.rel_path]
              IN /\ entry.expected_hash = kept.expected_hash
                 /\ entry.expected_size = kept.expected_size
                 /\ ~args.is_windows =>
                       /\ entry.expected_uid = kept.expected_uid
                       /\ entry.expected_gid = kept.expected_gid
                       /\ entry.expected_mode = kept.expected_mode
        /\ \A cat \in FileCategories : NoRepeat(report[cat])

====
